---------------------------- MODULE Spec2Model ----------------------------
(***************************************************************************)
(* A model of the ARC Merge tool of the Mod Organizer 2 DDDA plugins.      *)
(*                                                                         *)
(* Spec       models plugins/arctool_integration/arctool_merge_integration *)
(*            .py (class ARCMerge and its three QRunnable workers).        *)
(*                                                                         *)
(* The GUI thread runs display() and the slots connected to the workers'   *)
(* signals; each slot is one action.  Signals emitted by pool threads are  *)
(* queued to the GUI thread (events).  The scan worker takes one step per  *)
(* mod of its list, a merge job takes a start step (the cancel check) and  *)
(* a body step (extract, copy, compress, remove, emit).                    *)
(***************************************************************************)
EXTENDS Naturals, Sequences, FiniteSets, TLC

\* ------------------------------------------------------------- bounds ---
\* Number of display() invocations (runs of the tool) in one session.
MaxRuns == 2
\* Number of times the user presses Cancel in one session.
MaxCancels == 1
\* Number of archives installed in one session.
MaxInstalls == 3

\* --------------------------------------------------- the host's data ---
ModA == "ModA"
ModB == "ModB"
\* The merged-output mod, "Merged ARC - " + profileName().
MergeMod == "Merged ARC - p"
RealMods == {ModA, ModB}
AllMods == RealMods \cup {MergeMod}

\* Relative archive paths (ArchiveKeys) a mod may hold an extracted folder for.
Keys == {"k1", "k2"}
\* Keys sorted, the order folds walk them in.
KeyOrder == <<"k1", "k2">>
\* <key>.arc exists in the game's data directory for these keys only.
GameArcs == {"k1"}
\* The mods that ship <key>.arc.txt beside their <key> folder.
TxtMods == {ModA}
\* ModState.VALID as the host reports it.
ValidMods == {ModA, MergeMod}

\* File paths inside an extracted archive folder, and who ships which.
Files == {"f0", "f1", "f2", "f3"}
VanillaFiles == {"f0", "f1", "f2"}
ModFiles == [m \in RealMods |-> IF m = ModA THEN {"f1", "f2"} ELSE {"f2", "f3"}]
NoFile == "-"
Vanilla == "vanilla"

\* ------------------------------------------------------------ helpers ---
Range(s) == {s[i] : i \in DOMAIN s}

EmptyMap == [k \in {} |-> <<>>]

Put(m, k, v) == [x \in (DOMAIN m) \cup {k} |-> IF x = k THEN v ELSE m[x]]

None == "None"
\* dict.get(k, None): <<v>> for a value, <<>> for None.
Get(m, k) == IF k \in DOMAIN m THEN <<m[k]>> ELSE <<>>

\* arcFileMerge.json: absent, or a file holding a MergeMap.
Absent == [exists |-> FALSE, decodes |-> TRUE, map |-> EmptyMap]
File(m) == [exists |-> TRUE, decodes |-> TRUE, map |-> m]
\* arcFileMerge.json is a file that json.load cannot decode.
Garbage == [exists |-> TRUE, decodes |-> FALSE, map |-> EmptyMap]
\* A folder of files, each marked with the layer its content came from.
EmptyFolder == [f \in Files |-> NoFile]
\* <key>.arc in the merged-output mod: absent, or an archive of files.
NoArc == [exists |-> FALSE, files |-> EmptyFolder]
Arc(folder) == [exists |-> TRUE, files |-> folder]

VARIABLES
    \* the host (mod list, plugin settings) and the disk
    priority,       \* allModsByProfilePriority() restricted to the real mods
    modActive,      \* ModState.ACTIVE per mod
    modFolders,     \* the extracted-archive folders each real mod contains
    logEnabled,     \* pluginSetting "log-enabled"
    uncheckMods,    \* pluginSetting "uncheck-mods"
    cacheFile,      \* arcFileMerge.json: Absent or File(a MergeMap)
    mergedArc,      \* per key, the content of <key>.arc in the merged mod
    arctoolDir,     \* keys whose vanilla archive lies unpacked next to ARCTool
    mergedDir,      \* paths that exist under the merged mod (path-level view)
    workers,        \* MergeThreadWorkers of a run, step by step (path-level view)
    arctoolPresent, \* ARCtool.exe is a file of basePath()
    modArcs,        \* per real mod and key, the mod's <key>.arc file
    modEdited,      \* per real mod: the user has changed the content of files
                    \* inside its extracted folders in this session
    \* the DDDA installer
    dddaInstaller,  \* per source file, the attributes of class dddaInstaller
                    \* and of its plugin object
    installed,      \* the latest install() call (history): its ordinal, the
                    \* file of the installer, the attributes as the body of
                    \* install() found them, the entries it moved, copied or
                    \* deleted, its result
    \* the ARC Extract plugin object, its dialog and its workers
    exSettings,     \* the plugin settings of "ARC Extract"
    arc_files_seen_dict,       \* ARCExtract.arc_files_seen_dict
    arc_files_duplicate_dict,  \* ARCExtract.arc_files_duplicate_dict
    exPrev,         \* ARCExtract.arc_folders_previous_build_dict
    exCancel,       \* ARCExtract.threadCancel
    exDlg,          \* extract_progress_dialog: shown, canceled, max
    exScan,         \* the ScanThreadWorker: pc, list, idx
    exJobs,         \* ExtractThreadWorkers not yet run
    exSignals,      \* signals queued to the GUI thread
    exIndex,        \* self.current_index of ARCExtract
    exRun,          \* number of ARCExtract.display() calls so far
    exCancels,      \* number of Cancel presses on its dialog so far
    \* the plugin object
    prev,           \* ARCMerge.arc_folders_previous_build_dict
    cur,            \* ARCMerge.arc_folders_current_build_dict
    threadCancel,   \* ARCMerge.threadCancel
    current_index,  \* self.current_index
    logger,         \* self.logger: None or set
    dlgMax,         \* merge_progress_dialog.maximum()
    dlgCanceled,    \* merge_progress_dialog.wasCanceled()
    dlgShown,       \* the progress dialog is on screen
    \* the thread pool
    activeList,     \* ScanThreadWorker.active_mod_list
    scanPc,         \* "none", "load", "loop", "finished", "returned", "raised"
    scanIdx,        \* mods the scan loop has passed
    jobs,           \* MergeThreadWorkers not yet returned
    cleanups,       \* CleanupThreadWorkers not yet run (their entries)
    events,         \* signals queued to the GUI thread
    \* what happened in the current run (history)
    run,            \* number of display() calls so far
    cancels,        \* number of Cancel presses so far
    planned,        \* merge_arc_files has run in this run
    scheduled,      \* keys of the jobs merge_arc_files started, in order
    delivered,      \* completion callbacks handled for this run's jobs
    finCount,       \* times mod_cleanup started in this run
    finState,       \* how the latest mod_cleanup of this run ended
    finPlanned,     \* the latest mod_cleanup ran after merge_arc_files
    enabled,        \* the mods the user enabled at this run's prompt
    toolFailed,     \* ARCtool failed in a job since this run's start
    lastRun,        \* the previous run: it finalized, its cancel flag was set,
                    \* it loaded a map with entries
    cacheAtLoad,    \* what the scan of this run found as arcFileMerge.json
    cacheEdits      \* the <<mod, key>> pairs for which an ARC Extract scan found
                    \* a duplicate .arc of a mod the cache file listed: those
                    \* found since the last cache load of a merge scan
                    \* (pending), and those found up to that load (atLoad)

vars == <<priority, modActive, modFolders, logEnabled, uncheckMods, cacheFile,
          mergedArc, arctoolDir, mergedDir, workers, arctoolPresent, modArcs,
          modEdited, dddaInstaller, installed, exSettings,
          arc_files_seen_dict, arc_files_duplicate_dict, exPrev,
          exCancel, exDlg, exScan, exJobs, exSignals, exIndex, exRun,
          exCancels, prev, cur, threadCancel, current_index, logger, dlgMax,
          dlgCanceled, dlgShown, activeList, scanPc, scanIdx, jobs, cleanups,
          events, run, cancels, planned, scheduled, delivered, finCount, finState,
          finPlanned, enabled, toolFailed, lastRun, cacheAtLoad, cacheEdits>>

pathVars == <<mergedDir, workers>>
installVars == <<dddaInstaller, installed>>
extractVars == <<modArcs, exSettings, arc_files_seen_dict,
                 arc_files_duplicate_dict, exPrev, exCancel, exDlg, exScan,
                 exJobs, exSignals, exIndex, exRun, exCancels>>
hostVars == <<priority, modFolders, logEnabled, uncheckMods, arctoolDir,
              arctoolPresent, pathVars, extractVars, modEdited, installVars>>
histRunVars == <<run, cancels, lastRun, enabled, toolFailed, cacheAtLoad,
                 cacheEdits>>

\* ------------------------------------------------ the initial states ---
\* What arcFileMerge.json may hold when the session starts: nothing, or a
\* map an earlier session left.
CacheChoices ==
    {Absent, Garbage,
     File([k \in {"k1", "k2"} |-> IF k = "k1" THEN <<ModA, ModB>> ELSE <<ModA>>]),
     File([k \in {"k1"} |-> <<ModA>>]),
     File([k \in {"k2"} |-> <<ModA, ModB>>])}
\* ModA overrides every key; ModB overrides k2 (shipping no k2.arc.txt) and
\* may override k1.
FolderChoices ==
    {f \in [RealMods -> SUBSET Keys] : f[ModA] = Keys /\ "k2" \in f[ModB]}

\* ---------------------------------------------------- pure functions ---
\* allModsByProfilePriority(): every mod of the profile, the merged mod too.
AllModsByProfilePriority == priority \o <<MergeMod>>

\* Mutant: no name is taken for the merged mod's.
NameHasMergedARC_Never(m) == FALSE

\* "Merged ARC" in mod_name
NameHasMergedARC(m) == m = MergeMod

\* __process_mods, the loop that builds active_mod_list.
active_mod_list(order, act) ==
    SelectSeq(order, LAMBDA m : act[m] /\ ~NameHasMergedARC(m))

\* Mutant: every folder of a mod counts as an archive folder.
IsArcFolder_Any(m, k) == TRUE

\* The test of ScanThreadWorker.run on one folder of a mod: <key>.arc is a
\* file of the game directory, or the mod holds <key>.arc.txt.
IsArcFolder(m, k) == k \in GameArcs \/ m \in TxtMods

\* The folders os.walk finds in a mod.  The merged mod holds the folder of
\* a key while a MergeThreadWorker is at work on it (from the vanilla extract
\* to the rmtree), and the folders ARC Extract unpacked into it.
FoldersOf(folders, m) ==
    IF m \in DOMAIN folders THEN folders[m]
    ELSE {j.key : j \in {x \in jobs : x.st = "running"}}
             \cup {p[1] : p \in {q \in mergedDir : q[2] = "dir"}}

\* The body of the scan loop for one mod: append the mod to the list of
\* every archive folder it holds, unless the list has it already.
ScanMod(c, m, act, folders) ==
    IF act[m] /\ ~NameHasMergedARC(m)
    THEN LET hits == {k \in FoldersOf(folders, m) : IsArcFolder(m, k)}
         IN [k \in (DOMAIN c) \cup hits |->
                IF k \in hits
                THEN IF k \in DOMAIN c
                     THEN IF m \in Range(c[k]) THEN c[k] ELSE Append(c[k], m)
                     ELSE <<m>>
                ELSE c[k]]
    ELSE c

\* ScanThreadWorker.run, loading arcFileMerge.json when it is a file.
LoadPrevious(p, file) == IF file.exists /\ file.decodes THEN file.map ELSE p

\* Mutant: the lists compared as sets of members.
NeedsMerge_Unordered(c, p, k) == k \notin DOMAIN p \/ Range(c[k]) # Range(p[k])

\* The test of merge_arc_files on one entry of the current map.
NeedsMerge(c, p, k) == k \notin DOMAIN p \/ c[k] # p[k]

\* merge_arc_files, the loop over the current map: the keys it starts a
\* MergeThreadWorker for, in order.
RECURSIVE MergeLoop(_, _, _)
MergeLoop(c, p, i) ==
    IF i > Len(KeyOrder) THEN <<>>
    ELSE LET k == KeyOrder[i]
         IN IF k \in DOMAIN c /\ NeedsMerge(c, p, k)
            THEN <<k>> \o MergeLoop(c, p, i + 1)
            ELSE MergeLoop(c, p, i + 1)

\* Mutant: a file already in the merge folder is kept.
CopyTree_Keep(folder, m) ==
    [f \in Files |-> IF f \in ModFiles[m] /\ folder[f] = NoFile THEN m
                     ELSE folder[f]]

\* shutil.copytree(..., dirs_exist_ok=True) of one mod's folder over the
\* merge folder: every file of the mod replaces the file of that path.
CopyTree(folder, m) ==
    [f \in Files |-> IF f \in ModFiles[m] THEN m ELSE folder[f]]

\* MergeThreadWorker.run, the loop over mods_to_merge.
RECURSIVE CopyMods(_, _, _, _, _)
CopyMods(folder, mods, k, folders, i) ==
    IF i > Len(mods) THEN folder
    ELSE CopyMods(IF k \in folders[mods[i]] THEN CopyTree(folder, mods[i])
                  ELSE folder,
                  mods, k, folders, i + 1)

\* Mutant: a baseline is unpacked for every key.
Baseline_Always(k, extractOk) ==
    IF extractOk
    THEN [f \in Files |-> IF f \in VanillaFiles THEN Vanilla ELSE NoFile]
    ELSE EmptyFolder

\* The folder the vanilla extract leaves: the archive's files when the game
\* holds <key>.arc and ARCtool unpacked it, else nothing.
Baseline(k, extractOk) ==
    IF k \in GameArcs /\ extractOk
    THEN [f \in Files |-> IF f \in VanillaFiles THEN Vanilla ELSE NoFile]
    ELSE EmptyFolder

\* The archive an earlier session left in the merged mod for a key of
\* arcFileMerge.json: the baseline with the mods that map lists, mod by mod.
EarlierOutput(k) ==
    Arc(CopyMods(Baseline(k, TRUE), cacheFile.map[k], k, modFolders, 1))

\* The mods hold no .arc file.
NoArcs == [m \in RealMods |-> [k \in Keys |-> "none"]]
\* The settings of ARC Extract as settings() declares them.
DefaultSettings ==
    [restoreDefault |-> FALSE, removeITM |-> TRUE, deleteARC |-> TRUE,
     logEnabled |-> FALSE, uncheckMods |-> TRUE, mergeMode |-> FALSE]
\* ARCExtract after __init__ and init.
ExtractObject ==
    /\ arc_files_seen_dict = EmptyMap
    /\ arc_files_duplicate_dict = EmptyMap
    /\ exPrev = EmptyMap
    /\ exCancel = FALSE
    /\ exDlg = [shown |-> FALSE, canceled |-> FALSE, max |-> 0]
    /\ exScan = [pc |-> "none", list |-> <<>>, idx |-> 0]
    /\ exJobs = {}
    /\ exSignals = <<>>
    /\ exIndex = 0
    /\ exRun = 0
    /\ exCancels = 0
\* ARC Extract with its default settings, never opened.
ExtractIdle ==
    /\ modArcs = NoArcs
    /\ exSettings = DefaultSettings
    /\ ExtractObject

\* The two files of installer_ddda that define class dddaInstaller.
InstallerPy == "installer.py"
InstallerDdda == "installer_ddda.py"
\* The lists and flags of dddaInstaller as the class body declares them
\* (valid_structure is read nowhere).
NewInstaller ==
    [CopyList |-> <<>>, MoveList |-> <<>>, DeleteList |-> <<>>,
     fixable_structure |-> FALSE, valid_structure |-> FALSE]
NoInstall ==
    [calls |-> 0, by |-> "none", atStart |-> NewInstaller, applied |-> <<>>,
     result |-> "none"]
\* The installer plugins after __init__ and init.
InstallerObjects ==
    /\ dddaInstaller = [f \in {InstallerPy, InstallerDdda} |-> NewInstaller]
    /\ installed = NoInstall

\* No mod's files have been changed.
Unedited == [m \in RealMods |-> FALSE]

NoRun == [completed |-> FALSE, flagged |-> FALSE, loaded |-> FALSE]
\* No ARC Extract scan has touched the cache file.
NoEdits == [pending |-> {}, atLoad |-> {}]

\* ARCMerge after __init__ and init, its class attributes, and the merged
\* mod's folder seen path by path.
MergeObject ==
    /\ arctoolDir = {}
    /\ mergedDir = {}
    /\ workers = <<>>
    /\ prev = EmptyMap
    /\ cur = EmptyMap
    /\ threadCancel = FALSE
    /\ current_index = 0
    /\ logger = None
    /\ dlgMax = 0
    /\ dlgCanceled = FALSE
    /\ dlgShown = FALSE
    /\ activeList = <<>>
    /\ scanPc = "none"
    /\ scanIdx = 0
    /\ jobs = {}
    /\ cleanups = {}
    /\ events = <<>>
    /\ run = 0
    /\ cancels = 0
    /\ planned = FALSE
    /\ scheduled = <<>>
    /\ delivered = 0
    /\ finCount = 0
    /\ finState = "none"
    /\ finPlanned = FALSE
    /\ enabled = {}
    /\ toolFailed = FALSE
    /\ lastRun = NoRun
    /\ cacheAtLoad = "none"
    /\ cacheEdits = NoEdits

Init ==
    /\ priority \in {<<ModA, ModB>>, <<ModB, ModA>>}
    /\ modEdited = Unedited
    /\ InstallerObjects
    /\ modActive \in {f \in [AllMods -> BOOLEAN] : ~f[MergeMod]}
    /\ modFolders \in FolderChoices
    /\ logEnabled \in BOOLEAN
    /\ uncheckMods \in BOOLEAN
    /\ cacheFile \in CacheChoices
    /\ mergedArc = [k \in Keys |-> IF k \in DOMAIN cacheFile.map
                                    THEN EarlierOutput(k) ELSE NoArc]
    /\ arctoolPresent \in BOOLEAN
    /\ MergeObject
    /\ ExtractIdle

\* ------------------------------------------------------ the Finalizer ---
\* Mutant: the map written is the previous one.
mod_cleanup_WritePrevious ==
    IF DOMAIN prev # {} /\ dlgCanceled
    THEN [fin |-> "cancelled", cleanups |-> cleanups, cacheFile |-> cacheFile,
          modActive |-> modActive, dlgShown |-> dlgShown]
    ELSE [fin |-> IF logger = None THEN "raised" ELSE "ended",
          cleanups |-> cleanups \cup {k \in DOMAIN prev : k \notin DOMAIN cur},
          cacheFile |-> File(prev),
          modActive |-> [m \in AllMods |->
                           IF m = MergeMod /\ logger # None THEN TRUE
                           ELSE IF uncheckMods /\ m \notin ValidMods THEN FALSE
                           ELSE modActive[m]],
          dlgShown |-> FALSE]

\* ARCMerge.mod_cleanup, as the values it leaves behind.  fin tells how it
\* ended: "cancelled" (the return inside the stale loop), "raised" (the
\* AttributeError of self.logger.handlers.clear() on a logger that is None,
\* which skips the rest of the method and of the calling slot) or "ended".
mod_cleanup ==
    IF DOMAIN prev # {} /\ dlgCanceled
    THEN [fin |-> "cancelled", cleanups |-> cleanups, cacheFile |-> cacheFile,
          modActive |-> modActive, dlgShown |-> dlgShown]
    ELSE LET stale == {k \in DOMAIN prev : k \notin DOMAIN cur}
             unchecked == [m \in AllMods |->
                              IF uncheckMods /\ m \notin ValidMods
                              THEN FALSE ELSE modActive[m]]
         IN [fin |-> IF logger = None THEN "raised" ELSE "ended",
             cleanups |-> cleanups \cup stale,
             cacheFile |-> File(cur),
             modActive |-> IF logger = None THEN unchecked
                           ELSE [unchecked EXCEPT ![MergeMod] = TRUE],
             dlgShown |-> FALSE]

\* The stale keys mod_cleanup looks for.
StaleKeys == {k \in DOMAIN prev : k \notin DOMAIN cur}

Finalize(R, afterPlan) ==
    /\ cleanups' = R.cleanups
    /\ cacheFile' = R.cacheFile
    /\ modActive' = R.modActive
    /\ finState' = R.fin
    /\ finCount' = finCount + 1
    /\ finPlanned' = afterPlan

NoFinalize ==
    UNCHANGED <<cleanups, cacheFile, modActive, finState, finCount, finPlanned>>

\* ------------------------------------------------------- the GUI thread ---
Event(t) == [type |-> t, run |-> run]

\* Mutant: the previous map is not cleared at the start of a run.
display_KeepPrevious ==
    /\ arctoolPresent
    /\ run < MaxRuns
    /\ ~dlgShown
    /\ scanPc \in {"none", "finished", "returned", "raised"}
    /\ events = <<>>
    /\ \E yes \in SUBSET {m \in AllMods : ~modActive[m]} :
        /\ ~uncheckMods => yes = {}
        /\ LET act == [m \in AllMods |-> modActive[m] \/ m \in yes]
               list == active_mod_list(AllModsByProfilePriority, act)
           IN /\ modActive' = act
              /\ activeList' = list
              /\ enabled' = yes
              /\ toolFailed' = FALSE
              /\ dlgMax' = Len(list)
    /\ logger' = IF logEnabled THEN "set" ELSE logger
    /\ prev' = prev
    /\ cur' = EmptyMap
    /\ threadCancel' = FALSE
    /\ dlgCanceled' = FALSE
    /\ dlgShown' = TRUE
    /\ scanPc' = "load"
    /\ scanIdx' = 0
    /\ run' = run + 1
    /\ cancels' = cancels
    /\ planned' = FALSE
    /\ scheduled' = <<>>
    /\ delivered' = 0
    /\ finCount' = 0
    /\ finState' = "none"
    /\ finPlanned' = FALSE
    /\ lastRun' = [completed |-> finPlanned /\ finState \in {"raised", "ended"},
                   flagged |-> threadCancel, loaded |-> DOMAIN prev # {}]
    /\ cacheAtLoad' = "none"
    /\ UNCHANGED cacheEdits
    /\ UNCHANGED <<hostVars, cacheFile, mergedArc, current_index, jobs,
                   cleanups, events>>

\* ARCMerge.display followed by __process_mods: the logger, the prompt for
\* each inactive mod (yes: the mods the user enables), the reset of both
\* maps and of the cancel flag, the new progress dialog, the scan worker.
\* The user opens the tool when no dialog of an earlier run is on screen.
\* With ARCtool.exe missing get_arctool raises and display returns after the
\* message box, having changed nothing.
display ==
    /\ arctoolPresent
    /\ run < MaxRuns
    /\ ~dlgShown
    /\ scanPc \in {"none", "finished", "returned", "raised"}
    /\ events = <<>>
    /\ \E yes \in SUBSET {m \in AllMods : ~modActive[m]} :
        /\ ~uncheckMods => yes = {}
        /\ LET act == [m \in AllMods |-> modActive[m] \/ m \in yes]
               list == active_mod_list(AllModsByProfilePriority, act)
           IN /\ modActive' = act
              /\ activeList' = list
              /\ enabled' = yes
              /\ toolFailed' = FALSE
              /\ dlgMax' = Len(list)
    /\ logger' = IF logEnabled THEN "set" ELSE logger
    /\ prev' = EmptyMap
    /\ cur' = EmptyMap
    /\ threadCancel' = FALSE
    /\ dlgCanceled' = FALSE
    /\ dlgShown' = TRUE
    /\ scanPc' = "load"
    /\ scanIdx' = 0
    /\ run' = run + 1
    /\ cancels' = cancels
    /\ planned' = FALSE
    /\ scheduled' = <<>>
    /\ delivered' = 0
    /\ finCount' = 0
    /\ finState' = "none"
    /\ finPlanned' = FALSE
    /\ lastRun' = [completed |-> finPlanned /\ finState \in {"raised", "ended"},
                   flagged |-> threadCancel, loaded |-> DOMAIN prev # {}]
    /\ cacheAtLoad' = "none"
    /\ UNCHANGED cacheEdits
    /\ UNCHANGED <<hostVars, cacheFile, mergedArc, current_index, jobs,
                   cleanups, events>>

\* The user presses Cancel on the progress dialog, which hides it.
Cancel ==
    /\ cancels < MaxCancels
    /\ dlgShown
    /\ cancels' = cancels + 1
    /\ dlgCanceled' = TRUE
    /\ dlgShown' = FALSE
    /\ UNCHANGED <<hostVars, modActive, cacheFile, mergedArc, prev, cur,
                   threadCancel, current_index, logger, dlgMax, activeList,
                   scanPc, scanIdx, jobs, cleanups, events, run, lastRun,
                   cacheAtLoad, cacheEdits,
                   enabled, toolFailed, planned, scheduled, delivered, finCount,
                   finState,
                   finPlanned>>

\* ARCMerge.scan_thread_worker_progress
scan_thread_worker_progress ==
    /\ events # <<>>
    /\ Head(events).type = "progress"
    /\ events' = Tail(events)
    /\ threadCancel' = IF dlgCanceled THEN TRUE ELSE threadCancel
    /\ UNCHANGED <<hostVars, modActive, cacheFile, mergedArc, prev, cur,
                   current_index, logger, dlgMax, dlgCanceled, dlgShown,
                   activeList, scanPc, scanIdx, jobs, cleanups, histRunVars,
                   planned, scheduled, delivered, finCount, finState, finPlanned>>

\* The MergeThreadWorkers merge_arc_files starts for the keys of ks.
NewJobs(ks) ==
    {[id |-> i, key |-> ks[i], mods |-> cur[ks[i]], run |-> run,
      st |-> "queued"] : i \in 1..Len(ks)}

\* Mutant: merge_arc_files also starts a job for a key one of whose
\* contributors has changed files.
scan_thread_worker_complete_EditedToo ==
    /\ events # <<>>
    /\ Head(events).type = "scan_finished"
    /\ events' = Tail(events)
    /\ LET ks == SelectSeq(KeyOrder,
                           LAMBDA k : /\ k \in DOMAIN cur
                                      /\ \/ NeedsMerge(cur, prev, k)
                                         \/ \E m \in Range(cur[k]) :
                                                modEdited[m])
       IN /\ jobs' = jobs \cup NewJobs(ks)
          /\ scheduled' = ks
          /\ dlgMax' = Len(ks)
          /\ IF Len(ks) = 0
             THEN /\ Finalize(mod_cleanup, TRUE)
                  /\ dlgShown' = IF mod_cleanup.fin = "cancelled" THEN TRUE
                                 ELSE mod_cleanup.dlgShown
             ELSE /\ NoFinalize
                  /\ dlgShown' = TRUE
    /\ planned' = TRUE
    /\ UNCHANGED <<hostVars, mergedArc, prev, cur, threadCancel, current_index,
                   logger, dlgCanceled, activeList, scanPc, scanIdx,
                   histRunVars, delivered>>

\* ARCMerge.scan_thread_worker_complete, which is merge_arc_files: a job per
\* changed entry, the dialog shown again with the job count as its maximum,
\* and mod_cleanup at once when there is no job.
scan_thread_worker_complete ==
    /\ events # <<>>
    /\ Head(events).type = "scan_finished"
    /\ events' = Tail(events)
    /\ LET ks == MergeLoop(cur, prev, 1)
       IN /\ jobs' = jobs \cup NewJobs(ks)
          /\ scheduled' = ks
          /\ dlgMax' = Len(ks)
          /\ IF Len(ks) = 0
             THEN /\ Finalize(mod_cleanup, TRUE)
                  /\ dlgShown' = IF mod_cleanup.fin = "cancelled" THEN TRUE
                                 ELSE mod_cleanup.dlgShown
             ELSE /\ NoFinalize
                  /\ dlgShown' = TRUE
    /\ planned' = TRUE
    /\ UNCHANGED <<hostVars, mergedArc, prev, cur, threadCancel, current_index,
                   logger, dlgCanceled, activeList, scanPc, scanIdx,
                   histRunVars, delivered>>

\* ARCMerge.merge_thread_worker_complete
merge_thread_worker_complete ==
    /\ events # <<>>
    /\ Head(events).type = "merge_finished"
    /\ events' = Tail(events)
    /\ delivered' = IF Head(events).run = run THEN delivered + 1 ELSE delivered
    /\ IF current_index + 1 = dlgMax
       THEN /\ Finalize(mod_cleanup, planned)
            /\ dlgShown' = mod_cleanup.dlgShown
            /\ current_index' = 0
            /\ threadCancel' = IF mod_cleanup.fin # "raised" /\ dlgCanceled
                               THEN TRUE ELSE threadCancel
       ELSE /\ NoFinalize
            /\ dlgShown' = dlgShown
            /\ current_index' = IF dlgCanceled THEN 0 ELSE current_index + 1
            /\ threadCancel' = IF dlgCanceled THEN TRUE ELSE threadCancel
    /\ UNCHANGED <<hostVars, mergedArc, prev, cur, logger, dlgMax, dlgCanceled,
                   activeList, scanPc, scanIdx, jobs, histRunVars, planned,
                   scheduled>>

\* ------------------------------------------------------ the scan worker ---
\* ScanThreadWorker.run up to its loop: the previous map is loaded.  Only
\* IOError is caught there: the JSONDecodeError of a file that does not decode
\* ends the worker without a signal.  With no mod to scan the loop is empty
\* and the worker emits finished.
ScanLoad ==
    /\ scanPc = "load"
    /\ prev' = LoadPrevious(prev, cacheFile)
    /\ cacheAtLoad' = IF ~cacheFile.exists THEN "absent"
                       ELSE IF cacheFile.decodes THEN "map" ELSE "garbage"
    /\ cacheEdits' = [pending |-> {}, atLoad |-> cacheEdits.pending]
    /\ IF cacheFile.exists /\ ~cacheFile.decodes
       THEN /\ scanPc' = "raised"
            /\ UNCHANGED events
       ELSE IF activeList = <<>>
            THEN /\ scanPc' = "finished"
                 /\ events' = Append(events, Event("scan_finished"))
            ELSE /\ scanPc' = "loop"
                 /\ UNCHANGED events
    /\ UNCHANGED <<hostVars, modActive, cacheFile, mergedArc, cur, threadCancel,
                   current_index, logger, dlgMax, dlgCanceled, dlgShown,
                   activeList, scanIdx, jobs, cleanups, run, cancels,
                   lastRun, enabled, toolFailed, planned,
                   scheduled, delivered, finCount, finState, finPlanned>>

\* Mutant: a scan that finds the cancel flag set emits finished all the same.
ScanStep_FinishOnCancel ==
    /\ scanPc = "loop"
    /\ IF threadCancel
       THEN /\ scanPc' = "returned"
            /\ events' = Append(events, Event("scan_finished"))
            /\ UNCHANGED <<cur, scanIdx>>
       ELSE /\ cur' = ScanMod(cur, activeList[scanIdx + 1], modActive, modFolders)
            /\ scanIdx' = scanIdx + 1
            /\ IF scanIdx + 1 = Len(activeList)
               THEN /\ scanPc' = "finished"
                    /\ events' = events \o <<Event("progress"),
                                             Event("scan_finished")>>
               ELSE /\ scanPc' = "loop"
                    /\ events' = Append(events, Event("progress"))
    /\ UNCHANGED <<hostVars, modActive, cacheFile, mergedArc, prev, threadCancel,
                   current_index, logger, dlgMax, dlgCanceled, dlgShown,
                   activeList, jobs, cleanups, histRunVars, planned, scheduled,
                   delivered, finCount, finState, finPlanned>>

\* One iteration of the scan loop: the cancel check, the progress signal,
\* the walk of the mod; after the last mod, the finished signal.
ScanStep ==
    /\ scanPc = "loop"
    /\ IF threadCancel
       THEN /\ scanPc' = "returned"
            /\ UNCHANGED <<cur, scanIdx, events>>
       ELSE /\ cur' = ScanMod(cur, activeList[scanIdx + 1], modActive, modFolders)
            /\ scanIdx' = scanIdx + 1
            /\ IF scanIdx + 1 = Len(activeList)
               THEN /\ scanPc' = "finished"
                    /\ events' = events \o <<Event("progress"),
                                             Event("scan_finished")>>
               ELSE /\ scanPc' = "loop"
                    /\ events' = Append(events, Event("progress"))
    /\ UNCHANGED <<hostVars, modActive, cacheFile, mergedArc, prev, threadCancel,
                   current_index, logger, dlgMax, dlgCanceled, dlgShown,
                   activeList, jobs, cleanups, histRunVars, planned, scheduled,
                   delivered, finCount, finState, finPlanned>>

\* ------------------------------------------------------- the merge jobs ---
\* Mutant: after a failure of ARCtool the pool starts no further job.
JobStart_StopAfterFailure ==
    \E j \in jobs :
        /\ j.st = "queued"
        /\ jobs' = IF threadCancel \/ toolFailed THEN jobs \ {j}
                   ELSE (jobs \ {j}) \cup {[j EXCEPT !.st = "running"]}
        /\ UNCHANGED <<hostVars, modActive, cacheFile, mergedArc, prev, cur,
                       threadCancel, current_index, logger, dlgMax, dlgCanceled,
                       dlgShown, activeList, scanPc, scanIdx, cleanups, events,
                       histRunVars, planned, scheduled, delivered, finCount,
                       finState, finPlanned>>

\* MergeThreadWorker.run, its first statement: a job that finds the cancel
\* flag set returns without a signal.
JobStart ==
    \E j \in jobs :
        /\ j.st = "queued"
        /\ jobs' = IF threadCancel THEN jobs \ {j}
                   ELSE (jobs \ {j}) \cup {[j EXCEPT !.st = "running"]}
        /\ UNCHANGED <<hostVars, modActive, cacheFile, mergedArc, prev, cur,
                       threadCancel, current_index, logger, dlgMax, dlgCanceled,
                       dlgShown, activeList, scanPc, scanIdx, cleanups, events,
                       histRunVars, planned, scheduled, delivered, finCount,
                       finState, finPlanned>>

\* The merge folder a job builds: the baseline, then each mod of
\* mods_to_merge copied over it in list order.
MergeFolder(j, toolOk) ==
    CopyMods(Baseline(j.key, toolOk), j.mods, j.key, modFolders, 1)

\* The rest of MergeThreadWorker.run.  The vanilla archive, when the game has
\* it, is copied over <key>.arc of the merged mod, unpacked and removed; the
\* mods are copied; ARCtool compresses the folder into <key>.arc; the folder
\* is removed and finished is emitted.  A broken ARCtool (toolOk false)
\* writes nothing either time: its output is logged, never tested.  rmtree
\* raises when there is no merge folder, and the job ends without a signal.
JobBody ==
    \E j \in jobs : \E toolOk \in BOOLEAN :
        /\ j.st = "running"
        /\ LET folder == MergeFolder(j, toolOk)
               made == folder # EmptyFolder
               before == IF j.key \in GameArcs THEN NoArc ELSE mergedArc[j.key]
           IN /\ mergedArc' = [mergedArc EXCEPT ![j.key] =
                                 IF made /\ toolOk THEN Arc(folder)
                                 ELSE before]
              /\ events' = IF made
                           THEN Append(events, [type |-> "merge_finished",
                                                run |-> j.run])
                           ELSE events
        /\ jobs' = jobs \ {j}
        /\ toolFailed' = (toolFailed \/ ~toolOk)
        /\ UNCHANGED <<hostVars, modActive, cacheFile, prev, cur, threadCancel,
                       current_index, logger, dlgMax, dlgCanceled, dlgShown,
                       activeList, scanPc, scanIdx, cleanups, run, cancels,
                       lastRun, enabled, cacheAtLoad, cacheEdits,
                       planned, scheduled, delivered, finCount, finState, finPlanned>>

\* CleanupThreadWorker.run: the stale key's outputs are removed.
CleanupRun ==
    \E k \in cleanups :
        /\ cleanups' = cleanups \ {k}
        /\ mergedArc' = [mergedArc EXCEPT ![k] = NoArc]
        /\ UNCHANGED <<hostVars, modActive, cacheFile, prev, cur, threadCancel,
                       current_index, logger, dlgMax, dlgCanceled, dlgShown,
                       activeList, scanPc, scanIdx, jobs, events, histRunVars,
                       planned, scheduled, delivered, finCount, finState, finPlanned>>

Next ==
    \/ display
    \/ Cancel
    \/ scan_thread_worker_progress
    \/ scan_thread_worker_complete
    \/ merge_thread_worker_complete
    \/ ScanLoad
    \/ ScanStep
    \/ JobStart
    \/ JobBody
    \/ CleanupRun

Spec == Init /\ [][Next]_vars

\* The user deletes arcFileMerge.json from the merged mod between two runs.
DeleteCache ==
    /\ cacheFile.exists
    /\ run < MaxRuns
    /\ ~dlgShown
    /\ scanPc \in {"finished", "returned", "raised"}
    /\ events = <<>>
    /\ cacheFile' = Absent
    /\ UNCHANGED <<hostVars, modActive, mergedArc, prev, cur, threadCancel,
                   current_index, logger, dlgMax, dlgCanceled, dlgShown,
                   activeList, scanPc, scanIdx, jobs, cleanups, events,
                   histRunVars, planned, scheduled, delivered, finCount,
                   finState, finPlanned>>

SessionNext ==
    \/ Next
    \/ DeleteCache

\* Sessions in which the cache file may disappear between runs.
SessionSpec == Init /\ [][SessionNext]_vars

\* Between two runs the user changes the content of files inside the
\* extracted folders of a mod, adding and removing no folder.
EditMod ==
    /\ run < MaxRuns
    /\ ~dlgShown
    /\ scanPc \in {"finished", "returned", "raised"}
    /\ events = <<>>
    /\ \E m \in RealMods :
           /\ ~modEdited[m]
           /\ modFolders[m] # {}
           /\ modEdited' = [modEdited EXCEPT ![m] = TRUE]
    /\ UNCHANGED <<priority, modFolders, logEnabled, uncheckMods, arctoolDir,
                   arctoolPresent, pathVars, extractVars, installVars,
                   modActive, cacheFile, mergedArc, prev, cur, threadCancel,
                   current_index, logger, dlgMax, dlgCanceled, dlgShown,
                   activeList, scanPc, scanIdx, jobs, cleanups, events,
                   histRunVars, planned, scheduled, delivered, finCount,
                   finState, finPlanned>>

\* A session in which the mods' files change between runs.
EditNext ==
    \/ Next
    \/ EditMod

EditSpec == Init /\ [][EditNext]_vars

\* The thread pool runs every worker it was given and the GUI thread's event
\* loop delivers every queued signal; the user's steps (display, Cancel) may
\* never come.
Fairness ==
    /\ WF_vars(ScanLoad)
    /\ WF_vars(ScanStep)
    /\ WF_vars(JobStart)
    /\ WF_vars(JobBody)
    /\ WF_vars(CleanupRun)
    /\ WF_vars(scan_thread_worker_progress)
    /\ WF_vars(scan_thread_worker_complete)
    /\ WF_vars(merge_thread_worker_complete)

FairSpec == Spec /\ Fairness

\* ------------------------------------- the single-file plug-in ARCMerge.py ---
\* ARCToolCompress shares the merged mod and arcFileMerge.json with the
\* plug-in above.  Its handlers that differ are modelled here; the progress
\* slot and the cancel check of a job read the same in both files.

\* The test of scanThreadWorker.run on one folder: <key>.arc is a file of the
\* game directory.
IsGameArc(k) == k \in GameArcs

\* The body of scanThreadWorker.run's loop for one mod.
scanThreadWorker_mod(c, m, act, folders) ==
    IF act[m] /\ ~NameHasMergedARC(m)
    THEN LET hits == {k \in folders[m] : IsGameArc(k)}
         IN [k \in (DOMAIN c) \cup hits |->
                IF k \in hits
                THEN IF k \in DOMAIN c
                     THEN IF m \in Range(c[k]) THEN c[k] ELSE Append(c[k], m)
                     ELSE <<m>>
                ELSE c[k]]
    ELSE c

\* ARCToolCompress.modCleanup: a cleanupThreadWorker per stale entry, started
\* inside the test of log-enabled; the map written; the merged mod enabled.
modCleanup ==
    IF DOMAIN prev # {} /\ dlgCanceled
    THEN [fin |-> "cancelled", cleanups |-> cleanups, cacheFile |-> cacheFile,
          modActive |-> modActive, dlgShown |-> dlgShown]
    ELSE [fin |-> "ended",
          cleanups |-> cleanups \cup (IF logEnabled THEN StaleKeys ELSE {}),
          cacheFile |-> File(cur),
          modActive |-> [modActive EXCEPT ![MergeMod] = TRUE],
          dlgShown |-> FALSE]

\* ARCToolCompress.display followed by __process_mods.  The logger is set
\* whatever log-enabled says and no mod is prompted for.  They are reached
\* when get_arctool_path finds the saved path.
ARCToolCompress_display ==
    /\ arctoolPresent
    /\ run < MaxRuns
    /\ ~dlgShown
    /\ scanPc \in {"none", "finished", "returned", "raised"}
    /\ events = <<>>
    /\ LET list == active_mod_list(AllModsByProfilePriority, modActive)
       IN /\ activeList' = list
          /\ dlgMax' = Len(list)
    /\ enabled' = {}
    /\ toolFailed' = FALSE
    /\ logger' = "set"
    /\ prev' = EmptyMap
    /\ cur' = EmptyMap
    /\ threadCancel' = FALSE
    /\ dlgCanceled' = FALSE
    /\ dlgShown' = TRUE
    /\ scanPc' = "load"
    /\ scanIdx' = 0
    /\ run' = run + 1
    /\ cancels' = cancels
    /\ planned' = FALSE
    /\ scheduled' = <<>>
    /\ delivered' = 0
    /\ finCount' = 0
    /\ finState' = "none"
    /\ finPlanned' = FALSE
    /\ lastRun' = [completed |-> finPlanned /\ finState \in {"raised", "ended"},
                   flagged |-> threadCancel, loaded |-> DOMAIN prev # {}]
    /\ cacheAtLoad' = "none"
    /\ UNCHANGED cacheEdits
    /\ UNCHANGED <<hostVars, modActive, cacheFile, mergedArc, current_index,
                   jobs, cleanups, events>>

\* ARCToolCompress.scanThreadWorkerComplete, which is mergeArcFiles.
scanThreadWorkerComplete ==
    /\ events # <<>>
    /\ Head(events).type = "scan_finished"
    /\ events' = Tail(events)
    /\ LET ks == MergeLoop(cur, prev, 1)
       IN /\ jobs' = jobs \cup NewJobs(ks)
          /\ scheduled' = ks
          /\ dlgMax' = Len(ks)
          /\ IF Len(ks) = 0
             THEN /\ Finalize(modCleanup, TRUE)
                  /\ dlgShown' = IF modCleanup.fin = "cancelled" THEN TRUE
                                 ELSE modCleanup.dlgShown
             ELSE /\ NoFinalize
                  /\ dlgShown' = TRUE
    /\ planned' = TRUE
    /\ UNCHANGED <<hostVars, mergedArc, prev, cur, threadCancel, current_index,
                   logger, dlgCanceled, activeList, scanPc, scanIdx,
                   histRunVars, delivered>>

\* ARCToolCompress.mergeThreadWorkerComplete
mergeThreadWorkerComplete ==
    /\ events # <<>>
    /\ Head(events).type = "merge_finished"
    /\ events' = Tail(events)
    /\ delivered' = IF Head(events).run = run THEN delivered + 1 ELSE delivered
    /\ IF current_index + 1 = dlgMax
       THEN /\ Finalize(modCleanup, planned)
            /\ dlgShown' = modCleanup.dlgShown
            /\ current_index' = 0
       ELSE /\ NoFinalize
            /\ dlgShown' = dlgShown
            /\ current_index' = IF dlgCanceled THEN 0 ELSE current_index + 1
    /\ threadCancel' = IF dlgCanceled THEN TRUE ELSE threadCancel
    /\ UNCHANGED <<hostVars, mergedArc, prev, cur, logger, dlgMax, dlgCanceled,
                   activeList, scanPc, scanIdx, jobs, histRunVars, planned,
                   scheduled>>

\* scanThreadWorker.run up to its loop.  When arcFileMerge.json cannot be
\* read and log-enabled is set, the except clause reads self.logger, which
\* the worker does not have: the AttributeError ends the worker.
scanThreadWorker_load ==
    /\ scanPc = "load"
    /\ prev' = LoadPrevious(prev, cacheFile)
    /\ cacheAtLoad' = IF ~cacheFile.exists THEN "absent"
                       ELSE IF cacheFile.decodes THEN "map" ELSE "garbage"
    /\ cacheEdits' = [pending |-> {}, atLoad |-> cacheEdits.pending]
    /\ IF (~cacheFile.exists \/ ~cacheFile.decodes) /\ logEnabled
       THEN /\ scanPc' = "raised"
            /\ UNCHANGED events
       ELSE IF activeList = <<>>
            THEN /\ scanPc' = "finished"
                 /\ events' = Append(events, Event("scan_finished"))
            ELSE /\ scanPc' = "loop"
                 /\ UNCHANGED events
    /\ UNCHANGED <<hostVars, modActive, cacheFile, mergedArc, cur, threadCancel,
                   current_index, logger, dlgMax, dlgCanceled, dlgShown,
                   activeList, scanIdx, jobs, cleanups, run, cancels,
                   lastRun, enabled, toolFailed, planned,
                   scheduled, delivered, finCount, finState, finPlanned>>

\* One iteration of scanThreadWorker.run's loop.
scanThreadWorker_step ==
    /\ scanPc = "loop"
    /\ IF threadCancel
       THEN /\ scanPc' = "returned"
            /\ UNCHANGED <<cur, scanIdx, events>>
       ELSE /\ cur' = scanThreadWorker_mod(cur, activeList[scanIdx + 1],
                                           modActive, modFolders)
            /\ scanIdx' = scanIdx + 1
            /\ IF scanIdx + 1 = Len(activeList)
               THEN /\ scanPc' = "finished"
                    /\ events' = events \o <<Event("progress"),
                                             Event("scan_finished")>>
               ELSE /\ scanPc' = "loop"
                    /\ events' = Append(events, Event("progress"))
    /\ UNCHANGED <<hostVars, modActive, cacheFile, mergedArc, prev, threadCancel,
                   current_index, logger, dlgMax, dlgCanceled, dlgShown,
                   activeList, jobs, cleanups, histRunVars, planned, scheduled,
                   delivered, finCount, finState, finPlanned>>

\* The rest of mergeThreadWorker.run.  The vanilla archive is unpacked next
\* to ARCTool unless its folder is there already; copying <key>.arc.txt from
\* there raises when nothing was unpacked, and the job ends without a signal
\* and without touching the merged mod.  Otherwise the baseline and the mods
\* are copied, ARCtool compresses (a broken ARCtool leaves <key>.arc as it
\* was) and finished is emitted.
mergeThreadWorker_run ==
    \E j \in jobs : \E toolOk \in BOOLEAN :
        /\ j.st = "running"
        /\ jobs' = jobs \ {j}
        /\ toolFailed' = (toolFailed \/ ~toolOk)
        /\ IF j.key \in arctoolDir \/ (IsGameArc(j.key) /\ toolOk)
           THEN /\ arctoolDir' = arctoolDir \cup {j.key}
                /\ mergedArc' = [mergedArc EXCEPT ![j.key] =
                                   IF toolOk THEN Arc(MergeFolder(j, TRUE))
                                   ELSE @]
                /\ events' = Append(events, [type |-> "merge_finished",
                                             run |-> j.run])
           ELSE UNCHANGED <<arctoolDir, mergedArc, events>>
        /\ UNCHANGED <<priority, modFolders, logEnabled, uncheckMods, modActive,
                       pathVars, arctoolPresent, extractVars, modEdited,
                       installVars,
                       cacheFile, prev, cur, threadCancel, current_index, logger,
                       dlgMax, dlgCanceled, dlgShown, activeList, scanPc,
                       scanIdx, cleanups, run, cancels,
                       lastRun, enabled, cacheAtLoad, cacheEdits, planned, scheduled,
                       delivered, finCount, finState, finPlanned>>

\* cleanupThreadWorker.run: the stale key's files are removed next to ARCTool
\* and in the merged mod.
cleanupThreadWorker_run ==
    \E k \in cleanups :
        /\ cleanups' = cleanups \ {k}
        /\ arctoolDir' = arctoolDir \ {k}
        /\ mergedArc' = [mergedArc EXCEPT ![k] = NoArc]
        /\ UNCHANGED <<priority, modFolders, logEnabled, uncheckMods, modActive,
                       pathVars, arctoolPresent, extractVars, modEdited,
                       installVars,
                       cacheFile, prev, cur, threadCancel, current_index, logger,
                       dlgMax, dlgCanceled, dlgShown, activeList, scanPc,
                       scanIdx, jobs, events, histRunVars, planned, scheduled,
                       delivered, finCount, finState, finPlanned>>

LegacyNext ==
    \/ ARCToolCompress_display
    \/ Cancel
    \/ scan_thread_worker_progress
    \/ scanThreadWorkerComplete
    \/ mergeThreadWorkerComplete
    \/ scanThreadWorker_load
    \/ scanThreadWorker_step
    \/ JobStart
    \/ mergeThreadWorker_run
    \/ cleanupThreadWorker_run

LegacySpec == Init /\ [][LegacyNext]_vars

\* ------------------------------ MergeThreadWorker.run, path by path ---
\* The jobs of one run seen at the level of the paths they create, overwrite
\* and delete under the merged mod, one step of run() at a time, for keys of
\* which one may lie inside the folder of another.  A path is <<key, kind>>:
\* "dir" is the folder <key>, "file" a file in it, "arc" the file <key>.arc
\* and "txt" the file <key>.arc.txt.

\* Keys a scan can produce: the folder a/b lies in the folder a.
PathKeys == {"a", "a/b", "c"}
\* The merge_arc_files order of the keys.
PathKeyOrder == <<"a", "a/b", "c">>
\* The keys with a <key>.arc in the game; a/b is a key by the a/b.arc.txt
\* that the mods carry.
PathGameArcs == {"a", "c"}
\* The keys whose folder is directly inside the folder of k.
NestedIn(k) == IF k = "a" THEN {"a/b"} ELSE {}
\* os.path.dirname: the keys whose folder is an ancestor of the folder of k.
ParentDirs(k) == IF k = "a/b" THEN {<<"a", "dir">>} ELSE {}

\* Every path under the folder of k.
Under(k) ==
    {<<k, "file">>} \cup
    UNION {{<<n, "dir">>, <<n, "file">>, <<n, "arc">>, <<n, "txt">>} :
               n \in NestedIn(k)}

\* What copytree copies from a mod's folder of k: the folder, its files and
\* the folders, files and .arc.txt of the keys nested in it.
ModTree(k) ==
    {<<k, "dir">>, <<k, "file">>} \cup
    UNION {{<<n, "dir">>, <<n, "file">>, <<n, "txt">>} : n \in NestedIn(k)}

\* All the variables of the views above.
progVars == <<priority, modActive, modFolders, logEnabled, uncheckMods,
              cacheFile, mergedArc, arctoolDir, prev, cur, threadCancel,
              current_index, logger, dlgMax, dlgCanceled, dlgShown, activeList,
              scanPc, scanIdx, jobs, cleanups, events, run, cancels, planned,
              scheduled, delivered, finCount, finState, finPlanned, enabled,
              toolFailed, lastRun, cacheAtLoad, cacheEdits, arctoolPresent,
              extractVars, modEdited, installVars>>

\* The sequence of the keys of ks in merge_arc_files order.
RECURSIVE KeysInOrder(_, _)
KeysInOrder(ks, i) ==
    IF i > Len(PathKeyOrder) THEN <<>>
    ELSE IF PathKeyOrder[i] \in ks
         THEN <<PathKeyOrder[i]>> \o KeysInOrder(ks, i + 1)
         ELSE KeysInOrder(ks, i + 1)

\* merge_arc_files: one MergeThreadWorker per entry of the current map that
\* needs a merge (ks: the keys of those entries).
PathSchedule ==
    /\ workers = <<>>
    /\ \E ks \in SUBSET PathKeys :
           /\ ks # {}
           /\ workers' = [i \in 1..Cardinality(ks) |->
                             [key |-> KeysInOrder(ks, 1)[i], pc |-> "queued",
                              touched |-> {}]]
    /\ UNCHANGED <<progVars, mergedDir>>

\* The step of worker i: it goes to pc next, the paths of made exist
\* afterwards, those of gone do not, and both are recorded as touched; the
\* folders of parents exist afterwards too (mkdir with exist_ok).
WorkerStep(i, next, made, gone, parents) ==
    /\ workers' = [workers EXCEPT ![i].pc = next,
                                  ![i].touched = @ \cup made \cup gone]
    /\ mergedDir' = (mergedDir \cup made \cup parents) \ gone
    /\ UNCHANGED progVars

\* The vanilla extract, when the folder of the key is not there yet and the
\* game has <key>.arc: the parent folders are made, <key>.arc is copied in,
\* unpacked (the folder, its files and <key>.arc.txt appear) and removed.
WorkerExtract ==
    \E i \in DOMAIN workers :
        LET k == workers[i].key
        IN /\ workers[i].pc = "queued"
           /\ IF <<k, "dir">> \in mergedDir \/ k \notin PathGameArcs
              THEN WorkerStep(i, "copy", {}, {}, {})
              ELSE WorkerStep(i, "copy",
                              {<<k, "dir">>, <<k, "file">>, <<k, "txt">>},
                              {<<k, "arc">>}, ParentDirs(k))

\* The loop over mods_to_merge: copytree of the mod's folder of the key
\* (which makes the parent folders) and copy of the mod's <key>.arc.txt.
WorkerCopy ==
    \E i \in DOMAIN workers :
        LET k == workers[i].key
        IN /\ workers[i].pc = "copy"
           /\ WorkerStep(i, "compress", ModTree(k) \cup {<<k, "txt">>}, {},
                         ParentDirs(k))

\* ARCtool -c writes <key>.arc next to the folder.
WorkerCompress ==
    \E i \in DOMAIN workers :
        /\ workers[i].pc = "compress"
        /\ WorkerStep(i, "rmtree", {<<workers[i].key, "arc">>}, {}, {})

\* shutil.rmtree of the folder of the key removes all that is under it; it
\* raises when the folder is gone, and the worker ends without a signal.
WorkerRmtree ==
    \E i \in DOMAIN workers :
        LET k == workers[i].key
        IN /\ workers[i].pc = "rmtree"
           /\ IF <<k, "dir">> \in mergedDir
              THEN WorkerStep(i, "unlink", {},
                              {<<k, "dir">>} \cup (Under(k) \cap mergedDir),
                              {})
              ELSE WorkerStep(i, "raised", {}, {}, {})

\* unlink(missing_ok=True) of <key>.arc.txt, then the finished signal.
WorkerUnlink ==
    \E i \in DOMAIN workers :
        /\ workers[i].pc = "unlink"
        /\ WorkerStep(i, "done", {},
                      {<<workers[i].key, "txt">>} \cap mergedDir, {})

\* Every worker of the run has ended: the next run may schedule.
PathRunOver ==
    /\ workers # <<>>
    /\ \A i \in DOMAIN workers : workers[i].pc \in {"done", "raised"}
    /\ workers' = <<>>
    /\ UNCHANGED <<progVars, mergedDir>>

\* A session with no mod active and no cache, seen path by path.
PathInit ==
    /\ Init
    /\ priority = <<ModA, ModB>>
    /\ modActive = [m \in AllMods |-> FALSE]
    /\ modFolders = [m \in RealMods |-> Keys]
    /\ ~logEnabled
    /\ ~uncheckMods
    /\ cacheFile = Absent
    /\ arctoolPresent

PathNext ==
    \/ PathSchedule
    \/ WorkerExtract
    \/ WorkerCopy
    \/ WorkerCompress
    \/ WorkerRmtree
    \/ WorkerUnlink
    \/ PathRunOver

PathSpec == PathInit /\ [][PathNext]_vars

\* ------------------------------------------- the ARC Extract tool ---
\* plugins/arctool_integration/arctool_extract_integration.py: class
\* ARCExtract, its ScanThreadWorker and its ExtractThreadWorkers.  The
\* archive path of key k is <k>.arc; the maps are indexed by k.

\* Every variable of the ARC Merge tool that ARC Extract leaves alone.
mergeVars == <<priority, logEnabled, uncheckMods, mergedArc, arctoolDir,
               workers, arctoolPresent, prev, cur, threadCancel, current_index,
               logger, dlgMax, dlgCanceled, dlgShown, activeList, scanPc,
               scanIdx, jobs, cleanups, events, run, cancels, planned,
               scheduled, delivered, finCount, finState, finPlanned, enabled,
               toolFailed, lastRun, cacheAtLoad, modEdited, installVars>>

\* defaultdict(list)[k].append(x)
AppendTo(map, k, x) ==
    Put(map, k, (IF k \in DOMAIN map THEN map[k] ELSE <<>>) \o <<x>>)

\* list.remove(x), x being in the list: the first x goes.
RECURSIVE RemoveFirst(_, _)
RemoveFirst(seq, x) ==
    IF seq = <<>> THEN <<>>
    ELSE IF Head(seq) = x THEN Tail(seq)
         ELSE <<Head(seq)>> \o RemoveFirst(Tail(seq), x)

\* What os.walk yields in one directory of a mod: the folders, then the files.
WalkOrder ==
    [i \in 1..(2 * Len(KeyOrder)) |->
        IF i <= Len(KeyOrder)
        THEN [kind |-> "folder", key |-> KeyOrder[i]]
        ELSE [kind |-> "file", key |-> KeyOrder[i - Len(KeyOrder)]]]

\* The branch "relative_path in arc_files_seen_dict" of the scan: the mod
\* where the path was first seen, then this mod unless it is listed.
MarkDuplicate(st, m, k) ==
    LET first == st.seen[k][1]
        d1 == AppendTo(st.dup, k, first)
        d2 == IF m \in Range(d1[k]) THEN d1 ELSE AppendTo(d1, k, m)
    IN [st EXCEPT !.dup = d2]

\* The else branch of the scan: the path is seen in this mod.
MarkSeen(st, m, k) == [st EXCEPT !.seen = AppendTo(st.seen, k, m)]

\* A duplicate .arc file of a mod the cache lists for the folder: the mod is
\* removed from the entry and arcFileMerge.json rewritten.
UpdatePrevious(st, m, k) ==
    IF k \in DOMAIN st.prevd /\ m \in Range(st.prevd[k])
    THEN LET p == [st.prevd EXCEPT ![k] = RemoveFirst(@, m)]
         IN [st EXCEPT !.prevd = p, !.cache = File(p)]
    ELSE st

\* ScanThreadWorker.run on one extracted folder of a mod.
ScanFolder(st, m, k, mergeMode) ==
    IF k \notin GameArcs THEN st
    ELSE LET s1 == IF mergeMode THEN MarkSeen(st, m, k) ELSE st
         IN IF k \in DOMAIN s1.seen
            THEN MarkDuplicate(s1, m, k)
            ELSE MarkSeen(s1, m, k)

\* ScanThreadWorker.run on one .arc file of a mod.
ScanFile(st, m, k, mergeMode) ==
    LET s1 == IF mergeMode /\ ~(k \in DOMAIN st.seen /\ m \in Range(st.seen[k]))
              THEN MarkSeen(st, m, k) ELSE st
    IN IF k \in DOMAIN s1.seen
       THEN UpdatePrevious(MarkDuplicate(s1, m, k), m, k)
       ELSE MarkSeen(s1, m, k)

\* The keys whose .arc file in mod m the walk takes for a duplicate: the path
\* is in the seen map when the file is reached (merge-mode puts it there, or
\* an earlier mod, or the folder of the same mod, which the walk meets first).
DuplicateFiles(seen, m, folders, arcs, mergeMode) ==
    {k \in Keys : /\ arcs[k] # "none"
                  /\ \/ mergeMode
                     \/ k \in DOMAIN seen
                     \/ k \in folders /\ k \in GameArcs}

\* arcFileMerge.json lists mod m among the contributors of key k.
Listed(file, m, k) ==
    /\ file.exists
    /\ file.decodes
    /\ k \in DOMAIN file.map
    /\ m \in Range(file.map[k])

\* ScanThreadWorker.run on the folders and files of mod m from position i of
\* the walk on: folders the mod's folders, arcs its .arc files.
RECURSIVE ScanWalk(_, _, _, _, _, _)
ScanWalk(st, m, folders, arcs, mergeMode, i) ==
    IF i > Len(WalkOrder) THEN st
    ELSE LET it == WalkOrder[i]
             s1 == IF it.kind = "folder"
                   THEN IF it.key \in folders
                        THEN ScanFolder(st, m, it.key, mergeMode) ELSE st
                   ELSE IF arcs[it.key] # "none"
                        THEN ScanFile(st, m, it.key, mergeMode) ELSE st
         IN ScanWalk(s1, m, folders, arcs, mergeMode, i + 1)

\* Merge mode, before the walk: the files of the mod identical to the game's
\* are removed.
RemoveIdentical(arcs) == [k \in Keys |-> IF arcs[k] = "same" THEN "none" ELSE arcs[k]]

\* The settings after "restore default" (the flag itself stays).
Restored(set) ==
    [set EXCEPT !.removeITM = TRUE, !.deleteARC = TRUE, !.logEnabled = FALSE,
                !.uncheckMods = TRUE, !.mergeMode = FALSE]

\* ARCExtract.display followed by process_mods: the reset of the settings,
\* the ARCtool check, the reset of the cancel flag, the prompt for each
\* inactive mod (yes: the mods the user enables), the merge-mode warning
\* (go: the user's answer), the progress dialog and the scan worker.
ARCExtract_display ==
    /\ exRun < MaxRuns
    /\ ~exDlg.shown
    /\ exScan.pc \in {"none", "finished", "returned", "raised"}
    /\ exSignals = <<>>
    /\ exJobs = {}
    /\ exRun' = exRun + 1
    /\ LET s1 == IF exSettings.restoreDefault THEN Restored(exSettings)
                 ELSE exSettings
       IN IF ~arctoolPresent
          THEN /\ exSettings' = s1
               /\ UNCHANGED <<modActive, arc_files_seen_dict,
                              arc_files_duplicate_dict, exCancel, exDlg,
                              exScan, exIndex>>
          ELSE \E yes \in SUBSET {m \in AllMods : ~modActive[m]}, go \in BOOLEAN :
                 /\ ~s1.uncheckMods => yes = {}
                 /\ ~s1.mergeMode => go
                 /\ exSettings' = [s1 EXCEPT !.restoreDefault = FALSE]
                 /\ exCancel' = FALSE
                 /\ modActive' = [m \in AllMods |-> modActive[m] \/ m \in yes]
                 /\ arc_files_seen_dict' = EmptyMap
                 /\ arc_files_duplicate_dict' = EmptyMap
                 /\ IF go
                    THEN LET list == active_mod_list(AllModsByProfilePriority,
                                                     modActive')
                         IN /\ exDlg' = [shown |-> TRUE, canceled |-> FALSE,
                                         max |-> Len(list)]
                            /\ exScan' = [pc |-> "load", list |-> list,
                                          idx |-> 0]
                            /\ exIndex' = 0
                    ELSE UNCHANGED <<exDlg, exScan, exIndex>>
    /\ UNCHANGED <<mergeVars, cacheEdits, modFolders, cacheFile, mergedDir,
                   modArcs, exPrev,
                   exJobs, exSignals, exCancels>>

\* The user presses Cancel on the extract progress dialog, which hides it.
ExtractCancel ==
    /\ exCancels < MaxCancels
    /\ exDlg.shown
    /\ exCancels' = exCancels + 1
    /\ exDlg' = [exDlg EXCEPT !.shown = FALSE, !.canceled = TRUE]
    /\ UNCHANGED <<mergeVars, cacheEdits, modActive, modFolders, cacheFile,
                   mergedDir,
                   modArcs, exSettings, arc_files_seen_dict,
                   arc_files_duplicate_dict, exPrev, exCancel, exScan, exJobs,
                   exSignals, exIndex, exRun>>

\* ARCExtract.scan_thread_worker_progress
ARCExtract_scan_thread_worker_progress ==
    /\ exSignals # <<>>
    /\ Head(exSignals) = "progress"
    /\ exSignals' = Tail(exSignals)
    /\ exCancel' = (exCancel \/ exDlg.canceled)
    /\ UNCHANGED <<mergeVars, cacheEdits, modActive, modFolders, cacheFile,
                   mergedDir,
                   modArcs, exSettings, arc_files_seen_dict,
                   arc_files_duplicate_dict, exPrev, exDlg, exScan, exJobs,
                   exIndex, exRun, exCancels>>

\* ARCExtract.scan_thread_worker_complete: extract_duplicate_arcs starts one
\* ExtractThreadWorker per entry of the duplicate map, or "Nothing to do".
ARCExtract_scan_thread_worker_complete ==
    /\ exSignals # <<>>
    /\ Head(exSignals) = "scan_finished"
    /\ exSignals' = Tail(exSignals)
    /\ IF DOMAIN arc_files_duplicate_dict # {}
       THEN /\ exDlg' = [exDlg EXCEPT !.max =
                            Cardinality(DOMAIN arc_files_duplicate_dict)]
            /\ exIndex' = 0
            /\ exJobs' = {[arc |-> k, mods |-> arc_files_duplicate_dict[k]] :
                             k \in DOMAIN arc_files_duplicate_dict}
       ELSE /\ exDlg' = [exDlg EXCEPT !.shown = FALSE]
            /\ UNCHANGED <<exIndex, exJobs>>
    /\ UNCHANGED <<mergeVars, cacheEdits, modActive, modFolders, cacheFile,
                   mergedDir,
                   modArcs, exSettings, arc_files_seen_dict,
                   arc_files_duplicate_dict, exPrev, exCancel, exScan, exRun,
                   exCancels>>

\* ARCExtract.extract_thread_worker_complete: the count, extract_thread_cleanup
\* after the last job (it hides the dialog), then the cancel test.
ARCExtract_extract_thread_worker_complete ==
    /\ exSignals # <<>>
    /\ Head(exSignals) = "extract_finished"
    /\ exSignals' = Tail(exSignals)
    /\ exIndex' = exIndex + 1
    /\ exDlg' = IF exIndex' = exDlg.max THEN [exDlg EXCEPT !.shown = FALSE]
                ELSE exDlg
    /\ exCancel' = (exCancel \/ exDlg.canceled)
    /\ UNCHANGED <<mergeVars, cacheEdits, modActive, modFolders, cacheFile,
                   mergedDir,
                   modArcs, exSettings, arc_files_seen_dict,
                   arc_files_duplicate_dict, exPrev, exScan, exJobs, exRun,
                   exCancels>>

\* ScanThreadWorker.run up to its loop: the cache is loaded; a file that does
\* not decode raises out of run().
ExtractScanLoad ==
    /\ exScan.pc = "load"
    /\ IF cacheFile.exists /\ ~cacheFile.decodes
       THEN /\ exScan' = [exScan EXCEPT !.pc = "raised"]
            /\ exPrev' = exPrev
       ELSE /\ exScan' = [exScan EXCEPT !.pc = "loop"]
            /\ exPrev' = LoadPrevious(exPrev, cacheFile)
    /\ UNCHANGED <<mergeVars, cacheEdits, modActive, modFolders, cacheFile,
                   mergedDir,
                   modArcs, exSettings, arc_files_seen_dict,
                   arc_files_duplicate_dict, exCancel, exDlg, exJobs,
                   exSignals, exIndex, exRun, exCancels>>

\* One round of the loop of ScanThreadWorker.run: the cancel test, the mod's
\* walk and the progress signal; after the last mod, the finished signal.
ExtractScanStep ==
    /\ exScan.pc = "loop"
    /\ IF exScan.idx = Len(exScan.list)
       THEN /\ exScan' = [exScan EXCEPT !.pc = "finished"]
            /\ exSignals' = Append(exSignals, "scan_finished")
            /\ UNCHANGED <<modArcs, arc_files_seen_dict,
                           arc_files_duplicate_dict, exPrev, cacheFile,
                           cacheEdits>>
       ELSE IF exCancel
       THEN /\ exScan' = [exScan EXCEPT !.pc = "returned"]
            /\ UNCHANGED <<modArcs, arc_files_seen_dict,
                           arc_files_duplicate_dict, exPrev, cacheFile,
                           exSignals, cacheEdits>>
       ELSE LET m == exScan.list[exScan.idx + 1]
                arcs == IF exSettings.mergeMode THEN RemoveIdentical(modArcs[m])
                        ELSE modArcs[m]
                st == ScanWalk([seen |-> arc_files_seen_dict,
                                dup |-> arc_files_duplicate_dict,
                                prevd |-> exPrev, cache |-> cacheFile],
                               m, modFolders[m], arcs, exSettings.mergeMode, 1)
            IN /\ modArcs' = [modArcs EXCEPT ![m] = arcs]
               /\ arc_files_seen_dict' = st.seen
               /\ arc_files_duplicate_dict' = st.dup
               /\ exPrev' = st.prevd
               /\ cacheFile' = st.cache
               /\ exScan' = [exScan EXCEPT !.idx = @ + 1]
               /\ exSignals' = Append(exSignals, "progress")
               /\ cacheEdits' =
                      [cacheEdits EXCEPT !.pending = @ \cup
                          {<<m, k>> : k \in
                              {d \in DuplicateFiles(arc_files_seen_dict, m,
                                                    modFolders[m], arcs,
                                                    exSettings.mergeMode) :
                                   Listed(cacheFile, m, d)}}]
    /\ UNCHANGED <<mergeVars, modActive, modFolders, mergedDir, exSettings,
                   exCancel, exDlg, exJobs, exIndex, exRun, exCancels>>

\* ExtractThreadWorker.run on the mods of its list from position i on: a mod
\* that holds the .arc gets it unpacked into the folder, and loses the file
\* when delete-ARC is set.
RECURSIVE ExtractMods(_, _, _, _, _)
ExtractMods(st, mods, k, deleteARC, i) ==
    IF i > Len(mods) THEN st
    ELSE LET m == mods[i]
             s1 == IF st.arcs[m][k] = "none" THEN st
                   ELSE [folders |-> [st.folders EXCEPT ![m] = @ \cup {k}],
                         arcs |-> IF deleteARC
                                  THEN [st.arcs EXCEPT ![m][k] = "none"]
                                  ELSE st.arcs,
                         any |-> TRUE]
         IN ExtractMods(s1, mods, k, deleteARC, i + 1)

\* ExtractThreadWorker.run: the cancel test, the mods of the list, the
\* vanilla archive unpacked into the merged mod, the finished signal.
ExtractThreadWorker_run ==
    \E j \in exJobs :
        /\ exJobs' = exJobs \ {j}
        /\ IF exCancel
           THEN UNCHANGED <<modFolders, modArcs, mergedDir, exSignals>>
           ELSE LET st == ExtractMods([folders |-> modFolders, arcs |-> modArcs,
                                       any |-> FALSE],
                                      j.mods, j.arc, exSettings.deleteARC, 1)
                IN /\ modFolders' = st.folders
                   /\ modArcs' = st.arcs
                   /\ mergedDir' =
                          IF st.any /\ j.arc \in GameArcs
                          THEN mergedDir \cup {<<j.arc, "dir">>,
                                               <<j.arc, "file">>,
                                               <<j.arc, "txt">>}
                          ELSE mergedDir
                   /\ exSignals' = Append(exSignals, "extract_finished")
        /\ UNCHANGED <<mergeVars, cacheEdits, modActive, cacheFile, exSettings,
                       arc_files_seen_dict, arc_files_duplicate_dict, exPrev,
                       exCancel, exDlg, exScan, exIndex, exRun, exCancels>>

\* What the mods hold when the session starts: ModA may hold the folder and
\* the .arc of either key, ModB those of k1.
ArcChoices ==
    {a \in [RealMods -> [Keys -> {"none", "same", "modded"}]] :
        /\ a[ModA]["k2"] # "same"
        /\ a[ModB]["k2"] = "none"}
ExtractFolderChoices ==
    {f \in [RealMods -> SUBSET Keys] : f[ModB] \subseteq {"k1"}}
\* The settings the user may have chosen.
SettingChoices ==
    {set \in [restoreDefault : BOOLEAN, removeITM : {TRUE},
              deleteARC : BOOLEAN, logEnabled : {FALSE},
              uncheckMods : {FALSE}, mergeMode : BOOLEAN] : TRUE}

\* A session in which only ARC Extract is used.
ExtractInit ==
    /\ priority = <<ModA, ModB>>
    /\ modEdited = Unedited
    /\ InstallerObjects
    /\ modActive \in {f \in [AllMods -> BOOLEAN] : ~f[MergeMod]}
    /\ modFolders \in ExtractFolderChoices
    /\ logEnabled = FALSE
    /\ uncheckMods = FALSE
    /\ cacheFile \in {Absent, Garbage, File([k \in {"k1"} |-> <<ModA>>])}
    /\ mergedArc = [k \in Keys |-> IF k \in DOMAIN cacheFile.map
                                    THEN EarlierOutput(k) ELSE NoArc]
    /\ arctoolPresent \in BOOLEAN
    /\ MergeObject
    /\ modArcs \in ArcChoices
    /\ exSettings \in SettingChoices
    /\ ExtractObject

ExtractNext ==
    \/ ARCExtract_display
    \/ ExtractCancel
    \/ ARCExtract_scan_thread_worker_progress
    \/ ARCExtract_scan_thread_worker_complete
    \/ ARCExtract_extract_thread_worker_complete
    \/ ExtractScanLoad
    \/ ExtractScanStep
    \/ ExtractThreadWorker_run

ExtractSpec == ExtractInit /\ [][ExtractNext]_vars

\* The thread pool runs the scan worker and every extract worker, and the
\* event loop of the GUI thread delivers every queued signal.
ExtractFairness ==
    /\ WF_vars(ExtractScanLoad)
    /\ WF_vars(ExtractScanStep)
    /\ WF_vars(ExtractThreadWorker_run)
    /\ WF_vars(ARCExtract_scan_thread_worker_progress)
    /\ WF_vars(ARCExtract_scan_thread_worker_complete)
    /\ WF_vars(ARCExtract_extract_thread_worker_complete)

FairExtractSpec == ExtractSpec /\ ExtractFairness

\* ---------------------------------------- both tools in one session ---
\* ARC Extract and ARC Merge are two tools of the same menu; their progress
\* dialogs are not modal, so either can be opened while the other works.

\* What the mods hold when the session starts: ModA the extracted folder k1,
\* ModB k1.arc and perhaps the folder too, ModA perhaps k1.arc.
ToolsArcChoices ==
    {a \in [RealMods -> [Keys -> {"none", "modded"}]] :
        /\ a[ModA]["k2"] = "none"
        /\ a[ModB]["k2"] = "none"
        /\ a[ModB]["k1"] = "modded"}
ToolsFolderChoices ==
    {f \in [RealMods -> SUBSET Keys] : f[ModA] = {"k1"} /\ f[ModB] \subseteq {"k1"}}

\* A session in which both tools are used: every mod is active, and the cache
\* of an earlier merge lists both mods for k1 and ModA for k2.
ToolsInit ==
    /\ priority = <<ModA, ModB>>
    /\ modEdited = Unedited
    /\ InstallerObjects
    /\ modActive = [m \in AllMods |-> m # MergeMod]
    /\ modFolders \in ToolsFolderChoices
    /\ logEnabled = TRUE
    /\ uncheckMods = FALSE
    /\ cacheFile = File([k \in Keys |-> IF k = "k1" THEN <<ModA, ModB>>
                                        ELSE <<ModA>>])
    /\ mergedArc = [k \in Keys |-> EarlierOutput(k)]
    /\ arctoolPresent = TRUE
    /\ MergeObject
    /\ modArcs \in ToolsArcChoices
    /\ exSettings \in {set \in SettingChoices :
                          ~set.restoreDefault /\ ~set.mergeMode}
    /\ ExtractObject

ToolsNext ==
    \/ Next
    \/ ExtractNext

ToolsSpec == ToolsInit /\ [][ToolsNext]_vars

\* ------------------------------------------------ the DDDA installer ---
\* plugins/installer_ddda: class dddaInstaller of installer.py and of
\* installer_ddda.py.  An archive is the sequence of its entries in the order
\* filetree.walk visits them, each entry of one kind:
\*   "body"   a body file ([fm]_[aiw]_*.arc) outside rom, movie and sound
\*   "valid"  a file with a game extension under rom, movie or sound
\*   "hex"    a file whose extension is eight hex characters
\*   "other"  any other file or folder
ArchiveTrees ==
    {<<"body">>, <<"valid">>, <<"hex", "other">>, <<"other">>,
     <<"body", "valid">>}

\* The entry at position i of the tree handed to the n-th install() call.
Entry(n, tree, i) == [install |-> n, at |-> i, kind |-> tree[i]]

\* Every variable of the two ARC tools, which the installer leaves alone.
toolVars == <<priority, modActive, modFolders, logEnabled, uncheckMods,
              cacheFile, mergedArc, arctoolDir, arctoolPresent, pathVars,
              extractVars, modEdited, prev, cur, threadCancel, current_index,
              logger, dlgMax, dlgCanceled, dlgShown, activeList, scanPc,
              scanIdx, jobs, cleanups, events, histRunVars, planned,
              scheduled, delivered, finCount, finState, finPlanned>>

\* reversed(list)
Reverse(seq) == [i \in 1..Len(seq) |-> seq[Len(seq) + 1 - i]]

\* dddaInstaller.checkFiletreeEntry on a file or folder (the folder test
\* compares a tree object with strings and never holds).
checkFiletreeEntry(obj, e) ==
    IF e.kind = "valid"
    THEN [obj |-> [obj EXCEPT !.valid_structure = TRUE], ret |-> "STOP"]
    ELSE IF e.kind = "body"
    THEN [obj |-> [obj EXCEPT !.fixable_structure = TRUE,
                              !.MoveList = Append(@, e)],
          ret |-> "CONTINUE"]
    ELSE IF e.kind = "hex"
    THEN [obj |-> [obj EXCEPT !.MoveList = Append(@, e)], ret |-> "CONTINUE"]
    ELSE [obj |-> obj, ret |-> "CONTINUE"]

\* filetree.walk(self.checkFiletreeEntry, os.sep) from position i on.
RECURSIVE Walk(_, _, _, _)
Walk(obj, n, tree, i) ==
    IF i > Len(tree) THEN obj
    ELSE LET r == checkFiletreeEntry(obj, Entry(n, tree, i))
         IN IF r.ret = "STOP" THEN r.obj ELSE Walk(r.obj, n, tree, i + 1)

\* dddaInstaller.install of installer.py: the walk, then the moves and
\* deletes of the lists.
install ==
    /\ installed.calls < MaxInstalls
    /\ \E tree \in ArchiveTrees :
        LET n == installed.calls + 1
            start == dddaInstaller[InstallerPy]
            walked == Walk(start, n, tree, 1)
            both == /\ walked.fixable_structure
                    /\ Len(walked.DeleteList) > 0
                    /\ Len(walked.MoveList) > 0
            done == IF both THEN [walked EXCEPT !.valid_structure = TRUE]
                    ELSE walked
        IN /\ dddaInstaller' = [dddaInstaller EXCEPT ![InstallerPy] = done]
           /\ installed' =
                  [calls |-> n, by |-> InstallerPy, atStart |-> start,
                   applied |-> IF walked.fixable_structure /\ ~both
                               THEN Reverse(walked.DeleteList)
                                        \o Reverse(walked.MoveList)
                               ELSE <<>>,
                   result |-> IF walked.fixable_structure THEN "filetree"
                              ELSE "NOT_ATTEMPTED"]
    /\ UNCHANGED toolVars

\* The instruction file of a mod: no file (or the setting off), or its csv
\* lines, each a directive and the position of its target in the tree (a
\* position outside the tree: filetree.find finds nothing).
NoInstructions == <<[op |-> "nofile", at |-> 0]>>
InstructionChoices ==
    {NoInstructions,
     <<[op |-> "move", at |-> 1]>>,
     <<[op |-> "delete", at |-> 1], [op |-> "copy", at |-> 2]>>,
     <<[op |-> "copy", at |-> 3]>>}

\* install of installer_ddda.py, the csv loop from line i on.
RECURSIVE LoadInstructions(_, _, _, _, _)
LoadInstructions(obj, n, tree, lines, i) ==
    IF i > Len(lines) THEN obj
    ELSE LET l == lines[i]
             o == IF l.at \notin 1..Len(tree) THEN obj
                  ELSE LET e == Entry(n, tree, l.at)
                       IN IF l.op = "copy"
                          THEN [obj EXCEPT !.CopyList = Append(@, e)]
                          ELSE IF l.op = "move"
                          THEN [obj EXCEPT !.MoveList = Append(@, e)]
                          ELSE IF l.op = "delete"
                          THEN [obj EXCEPT !.DeleteList = Append(@, e)]
                          ELSE obj
         IN LoadInstructions(o, n, tree, lines, i + 1)

\* dddaInstaller.install of installer_ddda.py: the lists and flags cleared,
\* the mod identifier (idFound: a variant of the name holds the nexus id,
\* else the index raises), the instruction file or the walk, then the
\* copies, moves and deletes of the lists.
installer_ddda_install ==
    /\ installed.calls < MaxInstalls
    /\ \E tree \in ArchiveTrees, lines \in InstructionChoices,
          idFound \in BOOLEAN, manual \in BOOLEAN :
        LET n == installed.calls + 1
            start == NewInstaller
            filled == IF lines # NoInstructions
                      THEN LoadInstructions(
                               [start EXCEPT !.fixable_structure = TRUE],
                               n, tree, lines, 1)
                      ELSE Walk(start, n, tree, 1)
            empty == /\ filled.CopyList = <<>>
                     /\ filled.MoveList = <<>>
                     /\ filled.DeleteList = <<>>
        IN IF ~idFound
           THEN /\ dddaInstaller' = [dddaInstaller EXCEPT ![InstallerDdda] = start]
                /\ installed' = [calls |-> n, by |-> InstallerDdda,
                                 atStart |-> start, applied |-> <<>>,
                                 result |-> "raised"]
           ELSE /\ dddaInstaller' = [dddaInstaller EXCEPT ![InstallerDdda] = filled]
                /\ installed' =
                       [calls |-> n, by |-> InstallerDdda, atStart |-> start,
                        applied |-> IF filled.fixable_structure
                                    THEN Reverse(filled.CopyList)
                                             \o Reverse(filled.MoveList)
                                             \o Reverse(filled.DeleteList)
                                    ELSE <<>>,
                        result |-> IF ~filled.fixable_structure THEN "None"
                                   ELSE IF empty THEN "NOT_ATTEMPTED"
                                   ELSE IF manual THEN "MANUAL_REQUESTED"
                                   ELSE "SUCCESS"]
    /\ UNCHANGED toolVars

\* A session in which archives are installed and the ARC tools are not used.
InstallInit == PathInit

InstallNext ==
    \/ install
    \/ installer_ddda_install

InstallSpec == InstallInit /\ [][InstallNext]_vars

\* ------------------------------------------------------------ claims ---
\* The rebuild set of the data model: { k : Current[k] # Previous.get(k) }.
RebuildSet == {k \in DOMAIN cur : Get(cur, k) # Get(prev, k)}

\* C1: once merge_arc_files has run, the keys it started a job for are
\* exactly the keys of the current map whose contributor sequence differs
\* from the previous map's (or is new), one job each, and every job of the
\* run carries its key's current contributor sequence.
C1_RebuildSetExact ==
    planned =>
        /\ Range(scheduled) = RebuildSet
        /\ Len(scheduled) = Cardinality(RebuildSet)
        /\ \A j \in jobs :
               j.run = run => /\ j.id \in 1..Len(scheduled)
                              /\ scheduled[j.id] = j.key
                              /\ j.mods = cur[j.key]

\* A run that schedules a key whose members are those of the previous map in
\* another order, and leaves a key with an identical sequence alone.
C1_Witness ==
    /\ planned
    /\ \E k \in Range(scheduled) :
           /\ k \in DOMAIN prev
           /\ Range(prev[k]) = Range(cur[k])
    /\ \E k \in DOMAIN cur : k \in DOMAIN prev /\ k \notin Range(scheduled)

\* C3 as stated: every key of the current map is an archive of the game's
\* data directory.
C3_KeysAreGameArchives == \A k \in DOMAIN cur : k \in GameArcs

\* C3 as amended: every key of the current map is an archive of the game's
\* data directory or has <key>.arc.txt in each of its contributors, and each
\* contributor holds the key's folder.
C3_KeysAreGameArchivesOrTxt ==
    \A k \in DOMAIN cur : \A m \in Range(cur[k]) :
        /\ m \in RealMods
        /\ k \in modFolders[m]
        /\ k \in GameArcs \/ m \in TxtMods

\* A finished scan that keyed a folder without game archive through ModA's
\* .arc.txt and passed over the same folder of ModB, which ships none.
C3_Witness ==
    /\ scanPc = "finished"
    /\ "k2" \in DOMAIN cur
    /\ ModB \in Range(activeList)
    /\ "k2" \in modFolders[ModB]
    /\ ModB \notin Range(cur["k2"])

\* The mods of the scanned list that hold a folder for k, in list order.
Contributors(k) == SelectSeq(activeList, LAMBDA m : k \in modFolders[m])

\* C4: when the scan has emitted finished, the current map holds, for every
\* archive of the game, the active mods with a folder for it in priority
\* order, each once, and no entry when there is none.
C4_ScanResult ==
    scanPc = "finished" =>
        \A k \in GameArcs :
            Get(cur, k) = IF Contributors(k) = <<>> THEN <<>>
                          ELSE <<Contributors(k)>>

PosIn(seq, m) == CHOOSE i \in 1..Len(seq) : seq[i] = m

\* The contributor of job j that wins file f: the one of highest priority
\* among those whose folder holds f.
Winner(j, f) ==
    LET own == {m \in Range(j.mods) : j.key \in modFolders[m] /\ f \in ModFiles[m]}
    IN IF own = {} THEN None
       ELSE CHOOSE m \in own :
                \A n \in own : PosIn(priority, n) <= PosIn(priority, m)

C2_Idempotent ==
    (planned /\ lastRun.completed /\ enabled = {}) => scheduled = <<>>

\* The run is over: the Finalizer ran to its cache write after the scan and
\* no worker or signal is left.
Quiescent == jobs = {} /\ cleanups = {} /\ events = <<>>
Finalized == finPlanned /\ finState \in {"raised", "ended"}

\* C6: after a run that finalized, every key of the previous map that is not
\* in the current map has no output left in the merged mod and is not in the
\* persisted map.
C6_StaleCleanup ==
    (Finalized /\ Quiescent) =>
        \A k \in StaleKeys :
            /\ ~mergedArc[k].exists
            /\ k \notin DOMAIN cacheFile.map

\* C7: whenever the Finalizer has started in a run, merge_arc_files had run
\* and every job it scheduled had delivered its completion callback.
C7_FinalizerAfterJobs ==
    finCount > 0 => (planned /\ delivered = Len(scheduled))

\* C8: the Finalizer starts at most once in a run.
C8_FinalizerOnce == finCount <= 1

\* C9: after a Finalizer that did not return on cancellation, the merged mod
\* is active.
C9_MergedModActive ==
    finState \in {"raised", "ended"} => modActive[MergeMod]

RunJobs == {j \in jobs : j.run = run}

JobRan ==
    \/ \E j \in RunJobs : j.st = "running"
    \/ \E i \in 1..Len(events) :
           events[i].type = "merge_finished" /\ events[i].run = run
    \/ delivered > 0

\* C12: when the cancel flag is set, the scan has emitted finished and no job
\* of the run has executed a step, arcFileMerge.json has not been written in
\* the run.
C12_CancelBeforeJobs ==
    (threadCancel /\ scanPc = "finished" /\ ~JobRan) =>
        finState \notin {"raised", "ended"}

\* The archive of key k built from the current map: the baseline with the
\* current contributors copied over it in list order.
CurrentOutput(k) == Arc(CopyMods(Baseline(k, TRUE), cur[k], k, modFolders, 1))

\* C13: after a run that finalized and during which ARCtool never failed,
\* every key of the current map that the run did not rebuild, because
\* arcFileMerge.json listed the same contributors, has in the merged mod the
\* archive built from its current contributors.
C13_OutputMatchesCurrent ==
    (Finalized /\ Quiescent /\ ~toolFailed) =>
        \A k \in DOMAIN cur :
            k \notin Range(scheduled) => mergedArc[k] = CurrentOutput(k)

\* C14: when arcFileMerge.json exists and does not decode, the scan worker
\* goes on past the load with an empty previous map.
C14_UndecodableCacheIsEmpty ==
    (cacheFile.exists /\ ~cacheFile.decodes /\ scanPc \notin {"none", "load"})
        => (prev = EmptyMap /\ scanPc \in {"loop", "finished", "returned"})

MergeFinished(r) == [type |-> "merge_finished", run |-> r]

Executing(i) == workers[i].pc \in {"copy", "compress", "rmtree", "unlink"}

\* C17: the workers of a run have pairwise different keys, and two workers
\* that are executing at the same time have touched no common path of the
\* merged mod.
C17_DisjointPaths ==
    \A i, j \in DOMAIN workers :
        i # j =>
            /\ workers[i].key # workers[j].key
            /\ (Executing(i) /\ Executing(j)) =>
                   workers[i].touched \cap workers[j].touched = {}

\* The active mods that contain the archive path of key k: as a .arc file,
\* or as an extracted folder of an archive of the game.
Holders(k) ==
    {m \in RealMods : /\ modActive[m]
                      /\ \/ modArcs[m][k] # "none"
                         \/ k \in modFolders[m] /\ k \in GameArcs}

\* The ARC Extract scan has passed every mod of its list and its finished
\* signal is not handled yet.
ExtractScanDone ==
    /\ exScan.pc = "finished"
    /\ "scan_finished" \in Range(exSignals)

\* C18: after a scan with merge-mode off, every path of the duplicate map
\* is contained in at least two active mods, and every path contained in
\* exactly one active mod is in the seen map and not in the duplicate map.
C18_DuplicateMeansTwoMods ==
    (ExtractScanDone /\ ~exSettings.mergeMode) =>
        \A k \in Keys :
            /\ k \in DOMAIN arc_files_duplicate_dict =>
                   Cardinality(Holders(k)) >= 2
            /\ Cardinality(Holders(k)) = 1 =>
                   /\ k \in DOMAIN arc_files_seen_dict
                   /\ k \notin DOMAIN arc_files_duplicate_dict

\* C19: while ARCtool.exe is missing no step changes a setting of the
\* plugin, a mod's active state, the cache file, the scan worker or the jobs.
C19_NoSideEffectWithoutTool ==
    [][~arctoolPresent =>
           /\ exSettings' = exSettings
           /\ modActive' = modActive
           /\ cacheFile' = cacheFile
           /\ exScan' = exScan
           /\ exJobs' = exJobs]_vars

\* C20: a run that has reached the merging phase and in which Cancel has not
\* been pressed gets its Finalizer started, unless Cancel is pressed.
C20_FinalizerEventuallyRuns ==
    (planned /\ ~dlgCanceled) ~> (finCount > 0 \/ dlgCanceled)

\* The cancel flag has been set in the run that scheduled job j and that
\* run is the current one or the one before it.
FlagSetFor(j) ==
    \/ j.run = run /\ threadCancel
    \/ j.run + 1 = run /\ lastRun.flagged

\* C21: once the cancel flag is set, the scan passes no further mod, and a
\* job of that run that has not started never gets to its steps: it
\* returns at its start check.
C21_CancelledJobsNeverStart ==
    [][/\ threadCancel => scanIdx' <= scanIdx
       /\ \A j \in jobs :
              (j.st = "queued" /\ FlagSetFor(j)) =>
                  [j EXCEPT !.st = "running"] \notin jobs']_vars

\* C22: in a run whose scan found no cache file the previous map is empty,
\* whatever the run before loaded, so no key is stale and, once the merge is
\* planned, a job has been started for every key of the current map.
C22_NoCacheRebuildsAll ==
    cacheAtLoad = "absent" =>
        /\ prev = EmptyMap
        /\ StaleKeys = {}
        /\ planned => Range(scheduled) = DOMAIN cur

\* A run without cache file, after a run that loaded a map with entries, has
\* planned its merge and started jobs.
C22_Witness ==
    /\ cacheAtLoad = "absent"
    /\ lastRun.loaded
    /\ planned
    /\ scheduled # <<>>

\* C23: the completion counter never exceeds the number of jobs the current
\* run has scheduled; in particular it is 0 until merge_arc_files has run.
C23_CounterWithinScheduled ==
    current_index <= Len(scheduled)

\* C24: a step in which mod_cleanup runs to its cache write leaves no
\* CleanupThreadWorker waiting: the stale outputs are gone by then.
C24_CleanupBeforeCacheWrite ==
    [][(finCount' > finCount /\ finState' \in {"raised", "ended"}) =>
           cleanups' = {}]_vars

\* C25: an ARC Extract run whose dialog is on screen and not cancelled gets
\* to the end where the dialog is hidden (by the announcement of the run or,
\* at the latest, by a Cancel).
C25_ExtractRunEnds ==
    exDlg.shown ~> ~exDlg.shown

\* C26: after a scan of ARC Extract no list of the duplicate map names a mod
\* twice.
C26_ContributorsListedOnce ==
    ExtractScanDone =>
        \A k \in DOMAIN arc_files_duplicate_dict :
            \A i, j \in 1..Len(arc_files_duplicate_dict[k]) :
                i # j => arc_files_duplicate_dict[k][i] #
                             arc_files_duplicate_dict[k][j]

\* C27: a scan step of ARC Extract that finds a duplicate .arc of mod m for
\* key k, the cache file listing m for k, leaves a cache file that does not
\* list m for k; and a merge run whose scan loaded the cache after such a
\* step, and found m among the contributors of k, has started a job for k
\* once its merge is planned.
C27_ExtractForcesRebuild ==
    [][/\ \A e \in cacheEdits'.pending \ cacheEdits.pending :
              ~Listed(cacheFile', e[1], e[2])
       /\ planned' =>
              \A e \in cacheEdits'.atLoad :
                  (e[2] \in DOMAIN cur' /\ e[1] \in Range(cur'[e[2]])) =>
                      e[2] \in Range(scheduled')]_vars

\* C28: no list of the current map names the merged mod.
C28_MergedModNeverContributes ==
    \A k \in DOMAIN cur : MergeMod \notin Range(cur[k])

\* The merged mod is active and held the folder of an archive of the game
\* all through the scan of this run (a job of the run before is still at
\* work on it), and the scan has listed the key.
C28_Witness ==
    /\ modActive[MergeMod]
    /\ scanPc = "finished"
    /\ \E j \in jobs : /\ j.st = "running"
                       /\ j.run < run
                       /\ j.key \in GameArcs
                       /\ j.key \in DOMAIN cur

\* C29: which keys a run rebuilds is fixed by the two maps alone: a job is
\* started for a key of the current map exactly when its list differs from
\* the previous map's, whether or not the files of its contributors have
\* changed since the cache was written.
C29_RebuildIgnoresContent ==
    planned =>
        \A k \in DOMAIN cur :
            k \in Range(scheduled) <=> Get(cur, k) # Get(prev, k)

\* A run after which the files of a contributor of a key were changed is
\* followed by a run that finds the key's list as the cache has it and
\* starts no job for it.
C29_Witness ==
    /\ planned
    /\ lastRun.completed
    /\ \E k \in DOMAIN cur :
           /\ k \in DOMAIN prev
           /\ cur[k] = prev[k]
           /\ \E m \in Range(cur[k]) : modEdited[m]
           /\ k \notin Range(scheduled)

\* C30: the body of every install() call finds the copy, move and delete
\* lists empty and the fixable-structure flag off, and moves, copies or
\* deletes only entries of the archive it was called with.
C30_InstallStartsClean ==
    installed.calls > 0 =>
        /\ installed.atStart.CopyList = <<>>
        /\ installed.atStart.MoveList = <<>>
        /\ installed.atStart.DeleteList = <<>>
        /\ ~installed.atStart.fixable_structure
        /\ \A i \in 1..Len(installed.applied) :
               installed.applied[i].install = installed.calls

=============================================================================
